---- MODULE Spec2Model ----
(***************************************************************************)
(* Model of the two scripts of the repository:                             *)
(*   backend/tests/load/locustfile.py           the load generator         *)
(*   backend/infrastructure/kuberay/ray-serve-deployment.py  mock service  *)
(*                                                                         *)
(* Spec       the load generator: concurrent user sessions (on_start,      *)
(*            login, create_assessment, the task loop)                     *)
(* SpecStop   the global stop and the end-of-run hook on_test_stop over    *)
(*            measured statistics                                          *)
(* SpecSim    one /simulate invocation over JSON request bodies            *)
(* SpecServe  concurrent /health and /simulate invocations                 *)
(***************************************************************************)
EXTENDS Integers, Sequences, FiniteSets, TLC

VARIABLES
    \* ---- load generator (locustfile.py) ----
    cls,            \* class of each simulated user (TradingUser / HighFrequencyTradingUser)
    pc,             \* position of each session: spawned, login, create, tasks, stopped
    user_data,      \* self.user_data: index of the TEST_USERS record the session holds
    token,          \* self.token
    assessment_id,  \* self.assessment_id
    TEST_USERS,     \* the module-level identity pool: index -> [email, password, token]
    sent,           \* per session, the HTTP requests it has issued, in order
    stats,          \* environment.stats.total: num_requests, num_failures
    events,         \* the request events fired by the handler that ran last
    raised,         \* the exception that handler let escape to the runner, or None
    tasks_executed, \* task executions so far, over all sessions
    p99_latency,    \* on_test_stop: local p99_latency
    exit_code,      \* process exit code set by on_test_stop
    \* ---- mock service (ray-serve-deployment.py) ----
    request,        \* per invocation slot: the request being handled, or Idle
    reply           \* per invocation slot: the handler's outcome, or Idle

loadVars == <<cls, pc, user_data, token, assessment_id, TEST_USERS, sent, stats,
              events, raised, tasks_executed>>
stopVars == <<p99_latency, exit_code>>
serveVars == <<request, reply>>
vars == <<cls, pc, user_data, token, assessment_id, TEST_USERS, sent, stats,
          events, raised, tasks_executed, p99_latency, exit_code, request, reply>>

(***************************************************************************)
(* Python values                                                           *)
(***************************************************************************)
None == "None"

\* `not v` for the values a token or an id can take (None or a string)
Falsy(v) == v \in {None, ""}

(***************************************************************************)
(* Bounds and input domains                                                *)
(***************************************************************************)
\* task executions before the run is stopped
MaxTasks == 2

\* len(TEST_USERS)
NumTestUsers == 100

\* timeout= of the task requests, seconds
TaskTimeout == 5

Sessions == {"u1", "u2"}
Classes == {"TradingUser", "HighFrequencyTradingUser"}

\* outcomes of random.choice(TEST_USERS) that are explored
Choices == {0, NumTestUsers - 1}

\* status codes the external API (or the client, 0 = no response) can produce
\* for a request of the task loop, and for login and assessment creation
StatusCodes == {0, 200, 201, 204, 304, 500}
SetupStatusCodes == {0, 200, 201, 500}

\* what the external API issues: a token per login and an id per created
\* assessment, never the same value to two sessions
IssuedToken(s) == "token-" \o s
IssuedId(s) == "asmt-" \o s

\* response bodies: not JSON at all, JSON that is no object, or a JSON object
\* with the value it holds under the key that is read (None: key missing)
LoginBodies(s) ==
    {[kind |-> "invalid", token |-> None], [kind |-> "array", token |-> None]}
    \cup {[kind |-> "object", token |-> t] : t \in {None, "", IssuedToken(s)}}

AssessmentBodies(s) ==
    {[kind |-> "invalid", id |-> None], [kind |-> "array", id |-> None]}
    \cup {[kind |-> "object", id |-> a] : a \in {None, IssuedId(s)}}

LoginResponses(s) == [status_code : SetupStatusCodes, body : LoginBodies(s)]
AssessmentResponses(s) ==
    [status_code : SetupStatusCodes, body : AssessmentBodies(s)]

(***************************************************************************)
(* Requests and statistics                                                 *)
(***************************************************************************)
\* a call of self.client.post/get given no timeout= argument
NoTimeout == 0

\* one HTTP request as the session issues it: the method, the name= label,
\* the bearer token of the Authorization header (None: no such header), the
\* fields of the payload (or of the URL) and the timeout= argument
Request(method, name, auth, email, password, tier_id, aid, timeout) ==
    [method |-> method, name |-> name, auth |-> auth, email |-> email,
     password |-> password, tier_id |-> tier_id, assessment_id |-> aid,
     timeout |-> timeout]

\* the exception the HTTP client attaches to its own request event: none for
\* a response below 400, a RequestException for 4xx/5xx (HTTPError) and for
\* no response at all (timeout or connection error, status 0)
ClientException(status) ==
    IF status = 0 \/ status >= 400 THEN "RequestException" ELSE None

\* the request event the HTTP client fires for a call it made
ClientEvent(method, name, status) ==
    [request_type |-> method, name |-> name, exception |-> ClientException(status)]

\* the request event place_order means to fire itself (lines 86-93)
StatusEvent(status) ==
    [request_type |-> "POST", name |-> "/orders", response_time |-> 0,
     response_length |-> 0, exception |-> "Status " \o ToString(status)]

\* the statistics after one request event: every event counts as a request,
\* and one that carries an exception also counts as a failure
LogRequest(st, e) ==
    [num_requests |-> st.num_requests + 1,
     num_failures |-> IF e.exception = None THEN st.num_failures
                      ELSE st.num_failures + 1]

\* the statistics after a sequence of request events
RECURSIVE LogAll(_, _)
LogAll(st, es) ==
    IF es = <<>> THEN st ELSE LogAll(LogRequest(st, Head(es)), Tail(es))

\* the handler fired the events es and returned: they are recorded, in order
Fire(es) ==
    /\ events' = es
    /\ stats' = LogAll(stats, es)
    /\ raised' = None

\* the handler fired the events es and then let the exception exc escape: the
\* runner of the task loop catches it, reports it as a user error and goes on
\* to the next task
Raise(es, exc) ==
    /\ events' = es
    /\ stats' = LogAll(stats, es)
    /\ raised' = exc

\* response.json().get(key) raises (and the bare except swallows it) when the
\* body is no JSON or is JSON without a .get
JsonRaises(body) == body.kind # "object"

InitialUsers ==
    [i \in 0..(NumTestUsers - 1) |->
        [email |-> "test" \o ToString(i) \o "@example.com",
         password |-> "password123",
         token |-> None]]

(***************************************************************************)
(* TradingUser                                                             *)
(***************************************************************************)
\* on_start up to the call of login: pick an identity, reset the fields
on_start(s, i) ==
    /\ pc[s] = "spawned"
    /\ cls[s] = "TradingUser"
    /\ user_data' = [user_data EXCEPT ![s] = <<i>>]
    /\ token' = [token EXCEPT ![s] = None]
    /\ assessment_id' = [assessment_id EXCEPT ![s] = None]
    /\ pc' = [pc EXCEPT ![s] = "login"]
    /\ Fire(<<>>)
    /\ UNCHANGED <<cls, TEST_USERS, sent, tasks_executed>>
    /\ UNCHANGED stopVars /\ UNCHANGED serveVars

\* login that takes every 2xx status for a success
login_any_2xx(s, r) ==
    /\ pc[s] = "login"
    /\ cls[s] = "TradingUser"
    /\ LET u == user_data[s][1] IN
       /\ sent' = [sent EXCEPT ![s] = Append(@,
              Request("POST", "/auth/login", None, TEST_USERS[u].email,
                      TEST_USERS[u].password, None, None, NoTimeout))]
       /\ Fire(<<ClientEvent("POST", "/auth/login", r.status_code)>>)
       /\ IF r.status_code \in 200..299 /\ ~JsonRaises(r.body)
          THEN /\ token' = [token EXCEPT ![s] = r.body.token]
               /\ TEST_USERS' = [TEST_USERS EXCEPT ![u].token = r.body.token]
          ELSE UNCHANGED <<token, TEST_USERS>>
    /\ pc' = [pc EXCEPT ![s] = "create"]
    /\ UNCHANGED <<cls, user_data, assessment_id, tasks_executed>>
    /\ UNCHANGED stopVars /\ UNCHANGED serveVars

\* login that writes the pool record only while that record holds no token
login_first_writer(s, r) ==
    /\ pc[s] = "login"
    /\ cls[s] = "TradingUser"
    /\ LET u == user_data[s][1] IN
       /\ sent' = [sent EXCEPT ![s] = Append(@,
              Request("POST", "/auth/login", None, TEST_USERS[u].email,
                      TEST_USERS[u].password, None, None, NoTimeout))]
       /\ Fire(<<ClientEvent("POST", "/auth/login", r.status_code)>>)
       /\ IF r.status_code = 200 /\ ~JsonRaises(r.body)
          THEN /\ token' = [token EXCEPT ![s] = r.body.token]
               /\ TEST_USERS' =
                     IF TEST_USERS[u].token = None
                     THEN [TEST_USERS EXCEPT ![u].token = r.body.token]
                     ELSE TEST_USERS
          ELSE UNCHANGED <<token, TEST_USERS>>
    /\ pc' = [pc EXCEPT ![s] = "create"]
    /\ UNCHANGED <<cls, user_data, assessment_id, tasks_executed>>
    /\ UNCHANGED stopVars /\ UNCHANGED serveVars

login(s, r) ==
    /\ pc[s] = "login"
    /\ cls[s] = "TradingUser"
    /\ LET u == user_data[s][1] IN
       /\ sent' = [sent EXCEPT ![s] = Append(@,
              Request("POST", "/auth/login", None, TEST_USERS[u].email,
                      TEST_USERS[u].password, None, None, NoTimeout))]
       /\ Fire(<<ClientEvent("POST", "/auth/login", r.status_code)>>)
       /\ IF r.status_code = 200 /\ ~JsonRaises(r.body)
          THEN /\ token' = [token EXCEPT ![s] = r.body.token]
               /\ TEST_USERS' = [TEST_USERS EXCEPT ![u].token = r.body.token]
          ELSE UNCHANGED <<token, TEST_USERS>>
    /\ pc' = [pc EXCEPT ![s] = "create"]
    /\ UNCHANGED <<cls, user_data, assessment_id, tasks_executed>>
    /\ UNCHANGED stopVars /\ UNCHANGED serveVars

\* create_assessment without its `if not self.token: return`
create_assessment_unguarded(s, r) ==
    /\ pc[s] = "create"
    /\ cls[s] = "TradingUser"
    /\ sent' = [sent EXCEPT ![s] = Append(@,
           Request("POST", "/assessments", token[s], None, None,
                   "tier-1", None, NoTimeout))]
    /\ Fire(<<ClientEvent("POST", "/assessments", r.status_code)>>)
    /\ IF r.status_code = 201 /\ ~JsonRaises(r.body)
       THEN assessment_id' = [assessment_id EXCEPT ![s] = r.body.id]
       ELSE UNCHANGED assessment_id
    /\ pc' = [pc EXCEPT ![s] = "tasks"]
    /\ UNCHANGED <<cls, user_data, token, TEST_USERS, tasks_executed>>
    /\ UNCHANGED stopVars /\ UNCHANGED serveVars

create_assessment(s, r) ==
    /\ pc[s] = "create"
    /\ cls[s] = "TradingUser"
    /\ IF Falsy(token[s])
       THEN /\ Fire(<<>>)
            /\ UNCHANGED <<sent, assessment_id>>
       ELSE /\ sent' = [sent EXCEPT ![s] = Append(@,
                   Request("POST", "/assessments", token[s], None, None,
                           "tier-1", None, NoTimeout))]
            /\ Fire(<<ClientEvent("POST", "/assessments", r.status_code)>>)
            /\ IF r.status_code = 201 /\ ~JsonRaises(r.body)
               THEN assessment_id' = [assessment_id EXCEPT ![s] = r.body.id]
               ELSE UNCHANGED assessment_id
    /\ pc' = [pc EXCEPT ![s] = "tasks"]
    /\ UNCHANGED <<cls, user_data, token, TEST_USERS, tasks_executed>>
    /\ UNCHANGED stopVars /\ UNCHANGED serveVars

\* get_headers reading the token kept in the session's pool record
get_headers_from_pool(s) ==
    IF ~Falsy(TEST_USERS[user_data[s][1]].token)
    THEN TEST_USERS[user_data[s][1]].token
    ELSE None

\* the bearer token of the Authorization header, None for the empty dict
get_headers(s) == IF ~Falsy(token[s]) THEN token[s] ELSE None

\* place_order firing its event through self.environment.events, which exists
place_order_environment_events(s, status) ==
    /\ pc[s] = "tasks"
    /\ cls[s] = "TradingUser"
    /\ tasks_executed < MaxTasks
    /\ tasks_executed' = tasks_executed + 1
    /\ IF Falsy(assessment_id[s]) \/ Falsy(token[s])
       THEN /\ Fire(<<>>)
            /\ UNCHANGED sent
       ELSE /\ sent' = [sent EXCEPT ![s] = Append(@,
                   Request("POST", "/orders", get_headers(s), None, None, None,
                           assessment_id[s], TaskTimeout))]
            /\ IF status \notin {200, 201}
               THEN Fire(<<ClientEvent("POST", "/orders", status),
                           StatusEvent(status)>>)
               ELSE Fire(<<ClientEvent("POST", "/orders", status)>>)
    /\ UNCHANGED <<cls, pc, user_data, token, assessment_id, TEST_USERS>>
    /\ UNCHANGED stopVars /\ UNCHANGED serveVars

\* place_order: one POST /orders, for which the client fires its own request
\* event; on a status other than 200 and 201 line 86 then reads
\* self.client.events, an attribute the HTTP session of the client does not
\* have (it holds the one hook as request_event; the event hooks are
\* self.environment.events), so the AttributeError leaves the task before
\* request.fire is reached
place_order(s, status) ==
    /\ pc[s] = "tasks"
    /\ cls[s] = "TradingUser"
    /\ tasks_executed < MaxTasks
    /\ tasks_executed' = tasks_executed + 1
    /\ IF Falsy(assessment_id[s]) \/ Falsy(token[s])
       THEN /\ Fire(<<>>)
            /\ UNCHANGED sent
       ELSE /\ sent' = [sent EXCEPT ![s] = Append(@,
                   Request("POST", "/orders", get_headers(s), None, None, None,
                           assessment_id[s], TaskTimeout))]
            /\ IF status \notin {200, 201}
               THEN Raise(<<ClientEvent("POST", "/orders", status)>>,
                          "AttributeError")
               ELSE Fire(<<ClientEvent("POST", "/orders", status)>>)
    /\ UNCHANGED <<cls, pc, user_data, token, assessment_id, TEST_USERS>>
    /\ UNCHANGED stopVars /\ UNCHANGED serveVars

\* get_positions returning early only when both the id and the token are missing
get_positions_and(s, status) ==
    /\ pc[s] = "tasks"
    /\ cls[s] = "TradingUser"
    /\ tasks_executed < MaxTasks
    /\ tasks_executed' = tasks_executed + 1
    /\ IF Falsy(assessment_id[s]) /\ Falsy(token[s])
       THEN /\ Fire(<<>>)
            /\ UNCHANGED sent
       ELSE /\ sent' = [sent EXCEPT ![s] = Append(@,
                   Request("GET", "/positions", get_headers(s), None, None, None,
                           assessment_id[s], TaskTimeout))]
            /\ Fire(<<ClientEvent("GET", "/positions", status)>>)
    /\ UNCHANGED <<cls, pc, user_data, token, assessment_id, TEST_USERS>>
    /\ UNCHANGED stopVars /\ UNCHANGED serveVars

\* get_positions issuing its request without timeout=
get_positions_no_timeout(s, status) ==
    /\ pc[s] = "tasks"
    /\ cls[s] = "TradingUser"
    /\ tasks_executed < MaxTasks
    /\ tasks_executed' = tasks_executed + 1
    /\ IF Falsy(assessment_id[s]) \/ Falsy(token[s])
       THEN /\ Fire(<<>>)
            /\ UNCHANGED sent
       ELSE /\ sent' = [sent EXCEPT ![s] = Append(@,
                   Request("GET", "/positions", get_headers(s), None, None, None,
                           assessment_id[s], NoTimeout))]
            /\ Fire(<<ClientEvent("GET", "/positions", status)>>)
    /\ UNCHANGED <<cls, pc, user_data, token, assessment_id, TEST_USERS>>
    /\ UNCHANGED stopVars /\ UNCHANGED serveVars

get_positions(s, status) ==
    /\ pc[s] = "tasks"
    /\ cls[s] = "TradingUser"
    /\ tasks_executed < MaxTasks
    /\ tasks_executed' = tasks_executed + 1
    /\ IF Falsy(assessment_id[s]) \/ Falsy(token[s])
       THEN /\ Fire(<<>>)
            /\ UNCHANGED sent
       ELSE /\ sent' = [sent EXCEPT ![s] = Append(@,
                   Request("GET", "/positions", get_headers(s), None, None, None,
                           assessment_id[s], TaskTimeout))]
            /\ Fire(<<ClientEvent("GET", "/positions", status)>>)
    /\ UNCHANGED <<cls, pc, user_data, token, assessment_id, TEST_USERS>>
    /\ UNCHANGED stopVars /\ UNCHANGED serveVars

\* get_assessment that returns early only when the token is missing
get_assessment_token_only(s, status) ==
    /\ pc[s] = "tasks"
    /\ cls[s] = "TradingUser"
    /\ tasks_executed < MaxTasks
    /\ tasks_executed' = tasks_executed + 1
    /\ IF Falsy(token[s])
       THEN /\ Fire(<<>>)
            /\ UNCHANGED sent
       ELSE /\ sent' = [sent EXCEPT ![s] = Append(@,
                   Request("GET", "/assessments/:id", get_headers(s), None, None,
                           None, assessment_id[s], TaskTimeout))]
            /\ Fire(<<ClientEvent("GET", "/assessments/:id", status)>>)
    /\ UNCHANGED <<cls, pc, user_data, token, assessment_id, TEST_USERS>>
    /\ UNCHANGED stopVars /\ UNCHANGED serveVars

get_assessment(s, status) ==
    /\ pc[s] = "tasks"
    /\ cls[s] = "TradingUser"
    /\ tasks_executed < MaxTasks
    /\ tasks_executed' = tasks_executed + 1
    /\ IF Falsy(assessment_id[s]) \/ Falsy(token[s])
       THEN /\ Fire(<<>>)
            /\ UNCHANGED sent
       ELSE /\ sent' = [sent EXCEPT ![s] = Append(@,
                   Request("GET", "/assessments/:id", get_headers(s), None, None,
                           None, assessment_id[s], TaskTimeout))]
            /\ Fire(<<ClientEvent("GET", "/assessments/:id", status)>>)
    /\ UNCHANGED <<cls, pc, user_data, token, assessment_id, TEST_USERS>>
    /\ UNCHANGED stopVars /\ UNCHANGED serveVars

(***************************************************************************)
(* HighFrequencyTradingUser                                                *)
(***************************************************************************)
HF_on_start(s, i) ==
    /\ pc[s] = "spawned"
    /\ cls[s] = "HighFrequencyTradingUser"
    /\ user_data' = [user_data EXCEPT ![s] = <<i>>]
    /\ token' = [token EXCEPT ![s] = None]
    /\ assessment_id' = [assessment_id EXCEPT ![s] = None]
    /\ pc' = [pc EXCEPT ![s] = "login"]
    /\ Fire(<<>>)
    /\ UNCHANGED <<cls, TEST_USERS, sent, tasks_executed>>
    /\ UNCHANGED stopVars /\ UNCHANGED serveVars

\* the login of the high-frequency variant writing the pool record as the
\* login of the normal variant does
HF_login_writing_pool(s, r) ==
    /\ pc[s] = "login"
    /\ cls[s] = "HighFrequencyTradingUser"
    /\ LET u == user_data[s][1] IN
       /\ sent' = [sent EXCEPT ![s] = Append(@,
              Request("POST", "/auth/login", None, TEST_USERS[u].email,
                      TEST_USERS[u].password, None, None, NoTimeout))]
       /\ Fire(<<ClientEvent("POST", "/auth/login", r.status_code)>>)
       /\ IF r.status_code = 200 /\ ~JsonRaises(r.body)
          THEN /\ token' = [token EXCEPT ![s] = r.body.token]
               /\ TEST_USERS' = [TEST_USERS EXCEPT ![u].token = r.body.token]
          ELSE UNCHANGED <<token, TEST_USERS>>
    /\ pc' = [pc EXCEPT ![s] = "create"]
    /\ UNCHANGED <<cls, user_data, assessment_id, tasks_executed>>
    /\ UNCHANGED stopVars /\ UNCHANGED serveVars

HF_login(s, r) ==
    /\ pc[s] = "login"
    /\ cls[s] = "HighFrequencyTradingUser"
    /\ LET u == user_data[s][1] IN
       /\ sent' = [sent EXCEPT ![s] = Append(@,
              Request("POST", "/auth/login", None, TEST_USERS[u].email,
                      TEST_USERS[u].password, None, None, NoTimeout))]
       /\ Fire(<<ClientEvent("POST", "/auth/login", r.status_code)>>)
       /\ IF r.status_code = 200 /\ ~JsonRaises(r.body)
          THEN token' = [token EXCEPT ![s] = r.body.token]
          ELSE UNCHANGED token
    /\ pc' = [pc EXCEPT ![s] = "create"]
    /\ UNCHANGED <<cls, user_data, assessment_id, TEST_USERS, tasks_executed>>
    /\ UNCHANGED stopVars /\ UNCHANGED serveVars

\* create_assessment that takes 200 as well as 201 for a success
HF_create_assessment_200(s, r) ==
    /\ pc[s] = "create"
    /\ cls[s] = "HighFrequencyTradingUser"
    /\ IF Falsy(token[s])
       THEN /\ Fire(<<>>)
            /\ UNCHANGED <<sent, assessment_id>>
       ELSE /\ sent' = [sent EXCEPT ![s] = Append(@,
                   Request("POST", "/assessments", token[s], None, None,
                           "tier-1", None, NoTimeout))]
            /\ Fire(<<ClientEvent("POST", "/assessments", r.status_code)>>)
            /\ IF r.status_code \in {200, 201} /\ ~JsonRaises(r.body)
               THEN assessment_id' = [assessment_id EXCEPT ![s] = r.body.id]
               ELSE UNCHANGED assessment_id
    /\ pc' = [pc EXCEPT ![s] = "tasks"]
    /\ UNCHANGED <<cls, user_data, token, TEST_USERS, tasks_executed>>
    /\ UNCHANGED stopVars /\ UNCHANGED serveVars

HF_create_assessment(s, r) ==
    /\ pc[s] = "create"
    /\ cls[s] = "HighFrequencyTradingUser"
    /\ IF Falsy(token[s])
       THEN /\ Fire(<<>>)
            /\ UNCHANGED <<sent, assessment_id>>
       ELSE /\ sent' = [sent EXCEPT ![s] = Append(@,
                   Request("POST", "/assessments", token[s], None, None,
                           "tier-1", None, NoTimeout))]
            /\ Fire(<<ClientEvent("POST", "/assessments", r.status_code)>>)
            /\ IF r.status_code = 201 /\ ~JsonRaises(r.body)
               THEN assessment_id' = [assessment_id EXCEPT ![s] = r.body.id]
               ELSE UNCHANGED assessment_id
    /\ pc' = [pc EXCEPT ![s] = "tasks"]
    /\ UNCHANGED <<cls, user_data, token, TEST_USERS, tasks_executed>>
    /\ UNCHANGED stopVars /\ UNCHANGED serveVars

HF_get_headers(s) == IF ~Falsy(token[s]) THEN token[s] ELSE None

\* place_order_rapid that issues the request a second time when it failed
place_order_rapid_retry(s, status) ==
    /\ pc[s] = "tasks"
    /\ cls[s] = "HighFrequencyTradingUser"
    /\ tasks_executed < MaxTasks
    /\ tasks_executed' = tasks_executed + 1
    /\ IF Falsy(assessment_id[s]) \/ Falsy(token[s])
       THEN /\ Fire(<<>>)
            /\ UNCHANGED sent
       ELSE LET req == Request("POST", "/orders", HF_get_headers(s), None, None,
                               None, assessment_id[s], TaskTimeout)
                e == ClientEvent("POST", "/orders", status)
            IN IF e.exception # None
               THEN /\ sent' = [sent EXCEPT ![s] = Append(Append(@, req), req)]
                    /\ Fire(<<e, e>>)
               ELSE /\ sent' = [sent EXCEPT ![s] = Append(@, req)]
                    /\ Fire(<<e>>)
    /\ UNCHANGED <<cls, pc, user_data, token, assessment_id, TEST_USERS>>
    /\ UNCHANGED stopVars /\ UNCHANGED serveVars

\* place_order_rapid that forgets its assessment when the order failed
place_order_rapid_drop_id(s, status) ==
    /\ pc[s] = "tasks"
    /\ cls[s] = "HighFrequencyTradingUser"
    /\ tasks_executed < MaxTasks
    /\ tasks_executed' = tasks_executed + 1
    /\ IF Falsy(assessment_id[s]) \/ Falsy(token[s])
       THEN /\ Fire(<<>>)
            /\ UNCHANGED <<sent, assessment_id>>
       ELSE /\ sent' = [sent EXCEPT ![s] = Append(@,
                   Request("POST", "/orders", HF_get_headers(s), None, None, None,
                           assessment_id[s], TaskTimeout))]
            /\ Fire(<<ClientEvent("POST", "/orders", status)>>)
            /\ assessment_id' =
                  IF ClientException(status) # None
                  THEN [assessment_id EXCEPT ![s] = None]
                  ELSE assessment_id
    /\ UNCHANGED <<cls, pc, user_data, token, TEST_USERS>>
    /\ UNCHANGED stopVars /\ UNCHANGED serveVars

place_order_rapid(s, status) ==
    /\ pc[s] = "tasks"
    /\ cls[s] = "HighFrequencyTradingUser"
    /\ tasks_executed < MaxTasks
    /\ tasks_executed' = tasks_executed + 1
    /\ IF Falsy(assessment_id[s]) \/ Falsy(token[s])
       THEN /\ Fire(<<>>)
            /\ UNCHANGED sent
       ELSE /\ sent' = [sent EXCEPT ![s] = Append(@,
                   Request("POST", "/orders", HF_get_headers(s), None, None, None,
                           assessment_id[s], TaskTimeout))]
            /\ Fire(<<ClientEvent("POST", "/orders", status)>>)
    /\ UNCHANGED <<cls, pc, user_data, token, assessment_id, TEST_USERS>>
    /\ UNCHANGED stopVars /\ UNCHANGED serveVars

(***************************************************************************)
(* The run                                                                 *)
(***************************************************************************)
\* the global stop: every session leaves its task loop (or its on_start)
Stop ==
    /\ \E s \in Sessions : pc[s] # "stopped"
    /\ pc' = [s \in Sessions |-> "stopped"]
    /\ UNCHANGED <<cls, user_data, token, assessment_id, TEST_USERS, sent, stats,
                   events, raised, tasks_executed>>
    /\ UNCHANGED stopVars /\ UNCHANGED serveVars

NoStats == [num_requests |-> 0, num_failures |-> 0]

(***************************************************************************)
(* on_test_stop                                                            *)
(***************************************************************************)
\* largest p99 latency explored, ms
MaxP99 == 12

\* largest number of failed requests explored
MaxFailures == 3

\* totals of recorded requests explored, around the multiples of 1000
RequestCounts == {1, 999, 1000, 1001, 1999, 2000, 2001, 3000, 4000, 5000}

\* stats.total.fail_ratio, as the fraction num / den
fail_ratio(st) ==
    IF st.num_requests = 0
    THEN [num |-> IF st.num_failures > 0 THEN 1 ELSE 0, den |-> 1]
    ELSE [num |-> st.num_failures, den |-> st.num_requests]

\* error_rate = fail_ratio * 100, as a fraction
error_rate(st) == [num |-> fail_ratio(st).num * 100, den |-> fail_ratio(st).den]

\* q >= 0.1 for a fraction q with a positive denominator
AtLeastOneTenth(q) == q.num * 10 >= q.den

\* on_test_stop with > in place of >= in both comparisons
on_test_stop_strict(p99) ==
    /\ exit_code = <<>>
    /\ \A s \in Sessions : pc[s] = "stopped"
    /\ p99_latency' = <<p99>>
    /\ exit_code' = IF p99 > 10 \/ error_rate(stats).num * 10 > error_rate(stats).den
                    THEN <<1>>
                    ELSE <<0>>
    /\ UNCHANGED loadVars /\ UNCHANGED serveVars

\* the test_stop listener: measure, compare with the targets, exit
on_test_stop(p99) ==
    /\ exit_code = <<>>
    /\ \A s \in Sessions : pc[s] = "stopped"
    /\ p99_latency' = <<p99>>
    /\ exit_code' = IF p99 >= 10 \/ AtLeastOneTenth(error_rate(stats))
                    THEN <<1>>
                    ELSE <<0>>
    /\ UNCHANGED loadVars /\ UNCHANGED serveVars

(***************************************************************************)
(* The mock service: JSON values                                           *)
(***************************************************************************)
\* longest trade list explored
MaxTrades == 2

\* a JSON value as the handler sees it after request.json(): its type t and,
\* by type, an array's items, a number's value n, an object's balance and
\* peak entries (<<>>: key missing, <<v>>: value v) and its count of other keys
JValue(t, items, n, balance, peak, extra) ==
    [t |-> t, items |-> items, n |-> n, balance |-> balance, peak |-> peak,
     extra |-> extra]

JAbsent == JValue("absent", <<>>, 0, <<>>, <<>>, 0)   \* the key is not there
JNull == JValue("null", <<>>, 0, <<>>, <<>>, 0)
JNumber(n) == JValue("number", <<>>, n, <<>>, <<>>, 0)
JArray(items) == JValue("array", items, 0, <<>>, <<>>, 0)
JObject(balance, peak, extra) == JValue("object", <<>>, 0, balance, peak, extra)

\* dict.get(key) of a key that is missing or null gives None
IsNone(v) == v.t \in {"absent", "null"}

\* bool(v): None, 0, an empty list and an empty dict are false
Truthy(v) ==
    CASE v.t = "array" -> Len(v.items) > 0
      [] v.t = "number" -> v.n # 0
      [] v.t = "object" -> v.balance # <<>> \/ v.peak # <<>> \/ v.extra > 0
      [] OTHER -> FALSE

\* an `or` chain that tries the snake_case value first
PyOr_snake_first(a, b, c) == IF Truthy(b) THEN b ELSE IF Truthy(a) THEN a ELSE c

\* a or b or c
PyOr(a, b, c) == IF Truthy(a) THEN a ELSE IF Truthy(b) THEN b ELSE c

\* trade lists of up to MaxTrades opaque trade records
TradeLists == UNION {[1..k -> {"trade"}] : k \in 0..MaxTrades}

\* values sent under tradeHistory / trade_history
TradeValues == {JAbsent, JNull, JNumber(5)} \cup {JArray(l) : l \in TradeLists}

\* values sent under pnlData / pnl_data
PnlValues ==
    {JAbsent, JNull, JArray(<<"trade">>)}
    \cup {JObject(b, p, x) : b \in {<<>>, <<1000>>, <<2000>>},
                             p \in {<<>>, <<1200>>}, x \in {0, 1}}

\* request bodies: text that is no JSON, JSON that is no object, JSON objects
Payload(kind, tradeHistory, trade_history, pnlData, pnl_data) ==
    [kind |-> kind, tradeHistory |-> tradeHistory, trade_history |-> trade_history,
     pnlData |-> pnlData, pnl_data |-> pnl_data]

NonObjectPayloads ==
    {Payload(k, JAbsent, JAbsent, JAbsent, JAbsent) : k \in {"invalid", "array", "null"}}

SimPayloads ==
    NonObjectPayloads
    \cup {Payload("object", th, t_h, pd, p_d) :
            th \in TradeValues, t_h \in TradeValues,
            pd \in PnlValues, p_d \in PnlValues}

\* the bodies sent while two invocations run side by side
ServePayloads ==
    NonObjectPayloads
    \cup {Payload("object", JAbsent, JAbsent, JAbsent, JAbsent),
          Payload("object", JArray(<<"trade">>), JAbsent,
                  JObject(<<1000>>, <<1200>>, 0), JAbsent),
          Payload("object", JAbsent, JNumber(5), JAbsent, JNull)}

Routes == {"/health", "/simulate"}
Methods == {"GET", "POST"}

(***************************************************************************)
(* The mock service: handlers                                              *)
(***************************************************************************)
Idle == [state |-> "idle"]
Invocations == {"i1", "i2", "i3"}

\* an unhandled exception in a handler: the framework answers 500
Raised(exception) ==
    [status |-> 500, error |-> exception, body |-> [detail |-> "Internal Server Error"]]

\* a value returned by a handler: the framework answers 200 with it as JSON
Returned(body) == [status |-> 200, error |-> None, body |-> body]

\* the result dict with peakBalance read from the "balance" key
SimulationResult_peak_from_balance(trade_history, pnl_data) ==
    [riskMetrics |->
        [valueAtRisk95 |-> "5000.0", valueAtRisk99 |-> "7500.0",
         expectedShortfall |-> "8000.0", maxDrawdown |-> "0.15",
         sharpeRatio |-> "1.5", sortinoRatio |-> "2.1"],
     confidenceIntervals |->
        [return95Lower |-> "-0.05", return95Upper |-> "0.15",
         return99Lower |-> "-0.10", return99Upper |-> "0.20"],
     variance |-> "0.0025",
     pathsSimulated |-> 1000000,
     simulationTimeSeconds |-> "45.2",
     tradesAnalyzed |-> Len(trade_history.items),
     currentBalance |-> IF pnl_data.balance = <<>> THEN 0 ELSE pnl_data.balance[1],
     peakBalance |-> IF pnl_data.balance = <<>> THEN 0 ELSE pnl_data.balance[1]]

\* the dict MonteCarloSimulator.__call__ builds; the float literals are kept
\* as written
SimulationResult(trade_history, pnl_data) ==
    [riskMetrics |->
        [valueAtRisk95 |-> "5000.0", valueAtRisk99 |-> "7500.0",
         expectedShortfall |-> "8000.0", maxDrawdown |-> "0.15",
         sharpeRatio |-> "1.5", sortinoRatio |-> "2.1"],
     confidenceIntervals |->
        [return95Lower |-> "-0.05", return95Upper |-> "0.15",
         return99Lower |-> "-0.10", return99Upper |-> "0.20"],
     variance |-> "0.0025",
     pathsSimulated |-> 1000000,
     simulationTimeSeconds |-> "45.2",
     tradesAnalyzed |-> Len(trade_history.items),
     currentBalance |-> IF pnl_data.balance = <<>> THEN 0 ELSE pnl_data.balance[1],
     peakBalance |-> IF pnl_data.peak = <<>> THEN 0 ELSE pnl_data.peak[1]]

\* MonteCarloSimulator.__call__ on a request body
Simulate(payload) ==
    IF payload.kind = "invalid" THEN Raised("JSONDecodeError")
    ELSE IF payload.kind # "object" THEN Raised("AttributeError")
    ELSE LET trade_history ==
                 PyOr(payload.tradeHistory, payload.trade_history, JArray(<<>>))
             pnl_data ==
                 PyOr(payload.pnlData, payload.pnl_data, JObject(<<>>, <<>>, 0))
         IN IF trade_history.t # "array" THEN Raised("TypeError")
            ELSE IF pnl_data.t # "object" THEN Raised("AttributeError")
            ELSE Returned(SimulationResult(trade_history, pnl_data))

\* the framework hands a request to a free invocation of the route's handler
Receive(i, route, method, payload) ==
    /\ request[i] = Idle
    /\ request' = [request EXCEPT ![i] =
           [state |-> "pending", route |-> route, method |-> method,
            payload |-> payload]]
    /\ UNCHANGED reply
    /\ UNCHANGED loadVars /\ UNCHANGED stopVars

\* a health handler that reads the request body before it answers
HealthCheck_call_reading_body(i) ==
    /\ request[i] # Idle
    /\ request[i].route = "/health"
    /\ reply[i] = Idle
    /\ reply' = [reply EXCEPT ![i] =
           IF request[i].payload.kind = "invalid"
           THEN Raised("JSONDecodeError")
           ELSE Returned([status |-> "healthy"])]
    /\ UNCHANGED request
    /\ UNCHANGED loadVars /\ UNCHANGED stopVars

HealthCheck_call(i) ==
    /\ request[i] # Idle
    /\ request[i].route = "/health"
    /\ reply[i] = Idle
    /\ reply' = [reply EXCEPT ![i] = Returned([status |-> "healthy"])]
    /\ UNCHANGED request
    /\ UNCHANGED loadVars /\ UNCHANGED stopVars

\* a simulator that keeps the payload in an attribute of the replica, which
\* a request arriving in the meantime overwrites
MonteCarloSimulator_call_shared_payload(i) ==
    /\ request[i] # Idle
    /\ request[i].route = "/simulate"
    /\ reply[i] = Idle
    /\ LET later == {j \in Invocations \ {i} :
                        /\ request[j] # Idle
                        /\ request[j].route = "/simulate"
                        /\ reply[j] = Idle}
       IN reply' = [reply EXCEPT ![i] =
              IF later = {} THEN Simulate(request[i].payload)
              ELSE Simulate(request[CHOOSE j \in later : TRUE].payload)]
    /\ UNCHANGED request
    /\ UNCHANGED loadVars /\ UNCHANGED stopVars

MonteCarloSimulator_call(i) ==
    /\ request[i] # Idle
    /\ request[i].route = "/simulate"
    /\ reply[i] = Idle
    /\ reply' = [reply EXCEPT ![i] = Simulate(request[i].payload)]
    /\ UNCHANGED request
    /\ UNCHANGED loadVars /\ UNCHANGED stopVars

\* the framework sends the answer; the invocation is over
Respond(i) ==
    /\ reply[i] # Idle
    /\ request' = [request EXCEPT ![i] = Idle]
    /\ reply' = [reply EXCEPT ![i] = Idle]
    /\ UNCHANGED loadVars /\ UNCHANGED stopVars

InitServe ==
    /\ request = [i \in Invocations |-> Idle]
    /\ reply = [i \in Invocations |-> Idle]

InitStop ==
    /\ p99_latency = <<>>
    /\ exit_code = <<>>

\* a run that has recorded requests and is about to be stopped: the sessions
\* are in their task loops and the statistics hold the totals of the run
InitStopped ==
    /\ cls = [s \in Sessions |-> "TradingUser"]
    /\ pc = [s \in Sessions |-> "tasks"]
    /\ user_data = [s \in Sessions |-> <<>>]
    /\ token = [s \in Sessions |-> None]
    /\ assessment_id = [s \in Sessions |-> None]
    /\ TEST_USERS = InitialUsers
    /\ sent = [s \in Sessions |-> <<>>]
    /\ \E n \in RequestCounts, f \in 0..MaxFailures :
          /\ f <= n
          /\ stats = [num_requests |-> n, num_failures |-> f]
    /\ events = <<>>
    /\ raised = None
    /\ tasks_executed = 0
    /\ InitStop
    /\ InitServe

NextStop ==
    \/ Stop
    \/ \E p99 \in 0..MaxP99 : on_test_stop(p99)

SpecStop == InitStopped /\ [][NextStop]_vars

Init ==
    /\ cls \in {c \in [Sessions -> Classes] :
                   c["u1"] = "HighFrequencyTradingUser"
                       => c["u2"] = "HighFrequencyTradingUser"}
    /\ pc = [s \in Sessions |-> "spawned"]
    /\ user_data = [s \in Sessions |-> <<>>]
    /\ token = [s \in Sessions |-> None]
    /\ assessment_id = [s \in Sessions |-> None]
    /\ TEST_USERS = InitialUsers
    /\ sent = [s \in Sessions |-> <<>>]
    /\ stats = NoStats
    /\ events = <<>>
    /\ raised = None
    /\ tasks_executed = 0
    /\ InitStop
    /\ InitServe

Next ==
    \/ \E s \in Sessions, i \in Choices : on_start(s, i)
    \/ \E s \in Sessions : \E r \in LoginResponses(s) : login(s, r)
    \/ \E s \in Sessions : \E r \in AssessmentResponses(s) : create_assessment(s, r)
    \/ \E s \in Sessions, status \in StatusCodes : place_order(s, status)
    \/ \E s \in Sessions, status \in StatusCodes : get_positions(s, status)
    \/ \E s \in Sessions, status \in StatusCodes : get_assessment(s, status)
    \/ \E s \in Sessions, i \in Choices : HF_on_start(s, i)
    \/ \E s \in Sessions : \E r \in LoginResponses(s) : HF_login(s, r)
    \/ \E s \in Sessions : \E r \in AssessmentResponses(s) : HF_create_assessment(s, r)
    \/ \E s \in Sessions, status \in StatusCodes : place_order_rapid(s, status)

Spec == Init /\ [][Next]_vars

\* no session is spawned: only the mock service runs
InitService ==
    /\ cls = [s \in Sessions |-> "TradingUser"]
    /\ pc = [s \in Sessions |-> "spawned"]
    /\ user_data = [s \in Sessions |-> <<>>]
    /\ token = [s \in Sessions |-> None]
    /\ assessment_id = [s \in Sessions |-> None]
    /\ TEST_USERS = InitialUsers
    /\ sent = [s \in Sessions |-> <<>>]
    /\ stats = NoStats
    /\ events = <<>>
    /\ raised = None
    /\ tasks_executed = 0
    /\ InitStop
    /\ InitServe

\* one /simulate invocation at a time, over every request body
NextSim ==
    \/ /\ request["i1"] = Idle
       /\ \E payload \in SimPayloads : Receive("i1", "/simulate", "POST", payload)
    \/ MonteCarloSimulator_call("i1")
    \/ Respond("i1")

SpecSim == InitService /\ [][NextSim]_vars

\* invocations of both handlers side by side
NextServe ==
    \/ \E i \in Invocations :
          /\ request[i] = Idle
          /\ \E route \in Routes, method \in Methods, payload \in ServePayloads :
                Receive(i, route, method, payload)
    \/ \E i \in Invocations : HealthCheck_call(i)
    \/ \E i \in Invocations : MonteCarloSimulator_call(i)
    \/ \E i \in Invocations : Respond(i)

SpecServe == InitService /\ [][NextServe]_vars

(***************************************************************************)
(* Properties                                                              *)
(***************************************************************************)
\* the names of the requests of the task loop
TaskNames == {"/orders", "/positions", "/assessments/:id"}

\* the requests named in names that session s has issued
Issued(s, names) == {k \in 1..Len(sent[s]) : sent[s][k].name \in names}

\* session s has left login behind
PastLogin(s) == pc[s] \in {"create", "tasks"}

\* C1: a session whose login yielded no token (a status other than 200, or a
\* body that could not be read) holds no token after login, keeps holding
\* none, and has issued no POST /assessments, POST /orders, GET /positions or
\* GET /assessments/{id} request, whatever tasks were executed.
C1_NoTokenNoRequests ==
    /\ [][\A s \in Sessions :
            (pc[s] = "login" /\ pc'[s] # "login") =>
                \A r \in LoginResponses(s) :
                    ((r.status_code # 200 \/ r.body.kind # "object")
                        /\ (login(s, r) \/ HF_login(s, r)))
                    => token'[s] = None]_vars
    /\ [][\A s \in Sessions :
            (PastLogin(s) /\ Falsy(token[s])) => Falsy(token'[s])]_vars
    /\ [](\A s \in Sessions :
            (PastLogin(s) /\ Falsy(token[s]))
            => Issued(s, TaskNames \cup {"/assessments"}) = {})

\* C1 witness: both sessions failed login, reached the task loop and the
\* tasks of the run were executed by them
C1_Witness ==
    /\ \A s \in Sessions :
          /\ pc[s] = "tasks"
          /\ Falsy(token[s])
          /\ Issued(s, {"/auth/login"}) # {}
    /\ tasks_executed = MaxTasks

TaskStep(s, status) ==
    \/ place_order(s, status)
    \/ get_positions(s, status)
    \/ get_assessment(s, status)
    \/ place_order_rapid(s, status)

\* session s lacks its token or its assessment id
Unready(s) == Falsy(token[s]) \/ Falsy(assessment_id[s])

\* C4: a task executed by a session that lacks its token or its assessment id
\* issues no request, fires no request event, leaves the statistics as they
\* were and changes no token, no assessment id and no record of the pool.
C4_UnreadyTaskIsNoOp ==
    [][\A s \in Sessions :
          (tasks_executed' # tasks_executed /\ Unready(s)) =>
              \A status \in StatusCodes :
                  TaskStep(s, status) =>
                      /\ sent' = sent
                      /\ events' = <<>>
                      /\ stats' = stats
                      /\ token' = token
                      /\ assessment_id' = assessment_id
                      /\ TEST_USERS' = TEST_USERS]_vars

\* C4 witness: every task of the run was executed by sessions that lack the
\* assessment id or the token, one of them holding a token, and the
\* statistics hold the requests of on_start alone
C4_Witness ==
    /\ tasks_executed = MaxTasks
    /\ \A s \in Sessions : pc[s] = "tasks" /\ Unready(s)
    /\ \E s \in Sessions : ~Falsy(token[s]) /\ Falsy(assessment_id[s])
    /\ \A s \in Sessions : Issued(s, TaskNames) = {}
    /\ stats.num_requests = 3

\* C5: a place_order of a TradingUser that gets a status outside 200..299
\* raises the failure count, and a failure whose message is "Status <code>"
\* with that status is recorded for POST /orders. (Violated: the event of
\* lines 86-93 is never fired, so a 304 is recorded as the client's success
\* alone, and a 500 as the client's own failure without that message.)
C5_NonSuccessOrderIsFailure ==
    [][\A s \in Sessions :
          (tasks_executed' # tasks_executed /\ cls[s] = "TradingUser"
              /\ ~Unready(s)) =>
              \A status \in StatusCodes \ (200..299) :
                  place_order(s, status) =>
                      /\ stats'.num_failures > stats.num_failures
                      /\ \E k \in 1..Len(events') :
                            /\ events'[k].request_type = "POST"
                            /\ events'[k].name = "/orders"
                            /\ events'[k].exception = "Status " \o ToString(status)]_vars

\* C6: a session issues its login request exactly once, when login runs. A
\* response with status 200 and a readable body stores the token of that
\* body; any other response leaves the token unset. Either way login
\* returns into on_start, which goes on to create_assessment, and a session
\* without a token passes from there into its task loop without a request.
C6_LoginOnceNoPropagation ==
    /\ [](\A s \in Sessions :
            Cardinality(Issued(s, {"/auth/login"})) =
                IF pc[s] \in {"spawned", "login"} THEN 0 ELSE 1)
    /\ [][\A s \in Sessions :
            (pc[s] = "login" /\ pc'[s] # "login") =>
                /\ pc'[s] = "create"
                /\ \A r \in LoginResponses(s) :
                      (login(s, r) \/ HF_login(s, r)) =>
                          token'[s] = IF r.status_code = 200 /\ r.body.kind = "object"
                                      THEN r.body.token
                                      ELSE None]_vars
    /\ [][\A s \in Sessions :
            (pc[s] = "create" /\ pc'[s] # "create" /\ Falsy(token[s])) =>
                (pc'[s] = "tasks" /\ sent'[s] = sent[s])]_vars
    /\ [](\A s \in Sessions :
            pc[s] = "create" =>
                ENABLED (\E r \in AssessmentResponses(s) :
                            create_assessment(s, r) \/ HF_create_assessment(s, r)))

\* C6 witness: one session holds the token it was issued, the other was
\* refused one, and both are in their task loops after a single login each
C6_Witness ==
    /\ \A s \in Sessions :
          pc[s] = "tasks" /\ Cardinality(Issued(s, {"/auth/login"})) = 1
    /\ \E s \in Sessions : token[s] = IssuedToken(s)
    /\ \E s \in Sessions : token[s] = None
    /\ stats.num_failures = 1

\* C7: a session issues POST /assessments at most once, and only with the
\* token it holds. The assessment id becomes the id of the response body
\* exactly when the status is 201 and the body is readable; with any other
\* response, and without a token, it stays unset, and create_assessment
\* returns into the task loop.
C7_AssessmentOnce ==
    /\ [](\A s \in Sessions :
            /\ Cardinality(Issued(s, {"/assessments"})) <= 1
            /\ \A k \in Issued(s, {"/assessments"}) :
                  ~Falsy(token[s]) /\ sent[s][k].auth = token[s])
    /\ [][\A s \in Sessions :
            (pc[s] = "create" /\ pc'[s] # "create") =>
                /\ pc'[s] = "tasks"
                /\ Falsy(token[s]) =>
                      (sent'[s] = sent[s] /\ assessment_id'[s] = None)
                /\ ~Falsy(token[s]) =>
                      \A r \in AssessmentResponses(s) :
                          (create_assessment(s, r) \/ HF_create_assessment(s, r)) =>
                              assessment_id'[s] =
                                  IF r.status_code = 201 /\ r.body.kind = "object"
                                  THEN r.body.id
                                  ELSE None]_vars

\* C7 witness: one session holds the assessment id it was issued, the other
\* holds a token and no assessment id, each after one POST /assessments
C7_Witness ==
    /\ \A s \in Sessions :
          pc[s] = "tasks" /\ Cardinality(Issued(s, {"/assessments"})) = 1
    /\ \E s \in Sessions : assessment_id[s] = IssuedId(s)
    /\ \E s \in Sessions : assessment_id[s] = None

\* the step is one of session s
Acts(s) ==
    \/ pc'[s] # pc[s]
    \/ /\ tasks_executed' # tasks_executed
       /\ \E status \in StatusCodes : TaskStep(s, status)

\* C8: no step of a session changes the identity, the token, the assessment
\* id or the requests of another session, and every request of a session
\* carries no token and no assessment id but the ones this session was
\* issued; the requests of its task loop carry both.
C8_SessionStateIsPrivate ==
    /\ [][\A s \in Sessions :
            Acts(s) =>
                \A t \in Sessions \ {s} :
                    /\ user_data'[t] = user_data[t]
                    /\ token'[t] = token[t]
                    /\ assessment_id'[t] = assessment_id[t]
                    /\ sent'[t] = sent[t]]_vars
    /\ [](\A s \in Sessions :
            /\ token[s] \in {None, "", IssuedToken(s)}
            /\ assessment_id[s] \in {None, IssuedId(s)}
            /\ \A k \in 1..Len(sent[s]) :
                  /\ sent[s][k].auth \in {None, IssuedToken(s)}
                  /\ sent[s][k].assessment_id \in {None, IssuedId(s)}
                  /\ sent[s][k].name \in TaskNames =>
                        /\ sent[s][k].auth = IssuedToken(s)
                        /\ sent[s][k].assessment_id = IssuedId(s))

\* C8 witness: two sessions picked the same identity, were issued different
\* tokens, and each has issued a request of its task loop
C8_Witness ==
    /\ \A s \in Sessions : user_data[s] = <<0>>
    /\ \A s \in Sessions : token[s] = IssuedToken(s)
    /\ \A s \in Sessions : Issued(s, TaskNames) # {}
    /\ \E s \in Sessions : TEST_USERS[0].token # token[s]

Answered(i, route) ==
    /\ request[i] # Idle
    /\ request[i].route = route
    /\ reply[i] # Idle

\* the fixed fields of a /simulate answer hold the values of the source
FixedValues(body) ==
    /\ body.riskMetrics =
          [valueAtRisk95 |-> "5000.0", valueAtRisk99 |-> "7500.0",
           expectedShortfall |-> "8000.0", maxDrawdown |-> "0.15",
           sharpeRatio |-> "1.5", sortinoRatio |-> "2.1"]
    /\ body.confidenceIntervals =
          [return95Lower |-> "-0.05", return95Upper |-> "0.15",
           return99Lower |-> "-0.10", return99Upper |-> "0.20"]
    /\ body.variance = "0.0025"
    /\ body.pathsSimulated = 1000000
    /\ body.simulationTimeSeconds = "45.2"

\* the number of fixed numeric fields of a /simulate answer
FixedFieldCount(body) ==
    Cardinality(DOMAIN body.riskMetrics)
    + Cardinality(DOMAIN body.confidenceIntervals)
    + Cardinality((DOMAIN body) \ {"riskMetrics", "confidenceIntervals",
                                    "tradesAnalyzed", "currentBalance",
                                    "peakBalance"})

\* the trade list a body supplies: tradeHistory when it is a non-empty list,
\* otherwise trade_history when that is one, otherwise none
SuppliedTrades(p) ==
    IF p.tradeHistory.t = "array" /\ p.tradeHistory.items # <<>>
    THEN p.tradeHistory.items
    ELSE IF p.trade_history.t = "array" /\ p.trade_history.items # <<>>
    THEN p.trade_history.items
    ELSE <<>>

NonEmptyObject(v) ==
    v.t = "object" /\ (v.balance # <<>> \/ v.peak # <<>> \/ v.extra > 0)

\* the balance and the peak a body supplies (<<>>: none): those of pnlData
\* when it is a non-empty object, otherwise those of pnl_data
SuppliedPnl(p) ==
    IF NonEmptyObject(p.pnlData) THEN p.pnlData
    ELSE IF NonEmptyObject(p.pnl_data) THEN p.pnl_data
    ELSE JObject(<<>>, <<>>, 0)

\* the input-derived fields of a /simulate answer echo the body
EchoesInput(body, p) ==
    /\ body.tradesAnalyzed = Len(SuppliedTrades(p))
    /\ body.currentBalance =
          IF SuppliedPnl(p).balance = <<>> THEN 0 ELSE SuppliedPnl(p).balance[1]
    /\ body.peakBalance =
          IF SuppliedPnl(p).peak = <<>> THEN 0 ELSE SuppliedPnl(p).peak[1]

\* the body is a JSON object whose trade lists, where given, are arrays and
\* whose PnL snapshots, where given, are objects (null counts as not given)
DocumentedShape(p) ==
    /\ p.kind = "object"
    /\ p.tradeHistory.t \in {"absent", "null", "array"}
    /\ p.trade_history.t \in {"absent", "null", "array"}
    /\ p.pnlData.t \in {"absent", "null", "object"}
    /\ p.pnl_data.t \in {"absent", "null", "object"}

\* C3 as stated: every /simulate request whose body is valid JSON is answered
\* 200 with twelve fixed fields of constant value and the three echo fields.
C3_AnyValidJson ==
    \A i \in Invocations :
        (Answered(i, "/simulate") /\ request[i].payload.kind # "invalid") =>
            /\ reply[i].status = 200
            /\ FixedFieldCount(reply[i].body) = 12
            /\ FixedValues(reply[i].body)
            /\ EchoesInput(reply[i].body, request[i].payload)

\* C3, amended: every /simulate request whose body is a JSON object of the
\* documented shape is answered 200 with the thirteen fixed fields of
\* constant value, tradesAnalyzed the length of the supplied trade list and
\* currentBalance / peakBalance the supplied balance / peak, 0 where none.
C3_DocumentedBody ==
    \A i \in Invocations :
        (Answered(i, "/simulate") /\ DocumentedShape(request[i].payload)) =>
            /\ reply[i].status = 200
            /\ FixedFieldCount(reply[i].body) = 13
            /\ FixedValues(reply[i].body)
            /\ EchoesInput(reply[i].body, request[i].payload)

\* C3 witness: a body with a full trade list and a balance and a peak under
\* the camelCase keys alone has been answered
C3_Witness ==
    /\ Answered("i1", "/simulate")
    /\ request["i1"].payload =
          Payload("object", JArray([k \in 1..MaxTrades |-> "trade"]), JAbsent,
                  JObject(<<1000>>, <<1200>>, 0), JAbsent)
    /\ reply["i1"].status = 200
    /\ reply["i1"].body.tradesAnalyzed = MaxTrades
    /\ reply["i1"].body.currentBalance = 1000
    /\ reply["i1"].body.peakBalance = 1200

\* C10: every /health request, whatever its method and body and whatever the
\* other invocation is doing, can be answered, and its answer is status 200
\* with the payload {"status": "healthy"}.
C10_HealthAlwaysHealthy ==
    \A i \in Invocations :
        (request[i] # Idle /\ request[i].route = "/health") =>
            IF reply[i] = Idle
            THEN ENABLED HealthCheck_call(i)
            ELSE reply[i] = [status |-> 200, error |-> None,
                             body |-> [status |-> "healthy"]]

\* C10 witness: a POST to /health whose body is no JSON has been answered
\* while a /simulate request alongside it has failed
C10_Witness ==
    /\ Answered("i1", "/health")
    /\ request["i1"].method = "POST"
    /\ request["i1"].payload.kind = "invalid"
    /\ reply["i1"].status = 200
    /\ Answered("i2", "/simulate")
    /\ reply["i2"].status = 500

\* v is an array with at least one item
NonEmptyList(v) == v.t = "array" /\ v.items # <<>>

\* the entry of an object under a key read with .get(key, 0)
GetOr0(entry) == IF entry = <<>> THEN 0 ELSE entry[1]

\* C11: in the answer to a /simulate request, tradesAnalyzed is the length of
\* tradeHistory when that is a non-empty list, otherwise the length of
\* trade_history when that is a non-empty list, otherwise 0; currentBalance
\* and peakBalance are read from pnlData when that is a non-empty object,
\* otherwise from pnl_data when that is a non-empty object, otherwise both
\* are 0.
C11_KeyResolution ==
    \A i \in Invocations :
        (Answered(i, "/simulate") /\ DocumentedShape(request[i].payload)) =>
            LET p == request[i].payload
                body == reply[i].body
            IN /\ reply[i].status = 200
               /\ NonEmptyList(p.tradeHistory) =>
                     body.tradesAnalyzed = Len(p.tradeHistory.items)
               /\ (~NonEmptyList(p.tradeHistory) /\ NonEmptyList(p.trade_history)) =>
                     body.tradesAnalyzed = Len(p.trade_history.items)
               /\ (~NonEmptyList(p.tradeHistory) /\ ~NonEmptyList(p.trade_history)) =>
                     body.tradesAnalyzed = 0
               /\ NonEmptyObject(p.pnlData) =>
                     /\ body.currentBalance = GetOr0(p.pnlData.balance)
                     /\ body.peakBalance = GetOr0(p.pnlData.peak)
               /\ (~NonEmptyObject(p.pnlData) /\ NonEmptyObject(p.pnl_data)) =>
                     /\ body.currentBalance = GetOr0(p.pnl_data.balance)
                     /\ body.peakBalance = GetOr0(p.pnl_data.peak)
               /\ (~NonEmptyObject(p.pnlData) /\ ~NonEmptyObject(p.pnl_data)) =>
                     /\ body.currentBalance = 0
                     /\ body.peakBalance = 0

\* C11 witness: an empty tradeHistory beside a full trade_history, and a
\* pnlData and a pnl_data with different balances; the answer counts the
\* snake_case trades and reports the camelCase balance
C11_Witness ==
    /\ Answered("i1", "/simulate")
    /\ request["i1"].payload =
          Payload("object", JArray(<<>>), JArray([k \in 1..MaxTrades |-> "trade"]),
                  JObject(<<1000>>, <<>>, 0), JObject(<<2000>>, <<1200>>, 0))
    /\ reply["i1"].status = 200
    /\ reply["i1"].body.tradesAnalyzed = MaxTrades
    /\ reply["i1"].body.currentBalance = 1000
    /\ reply["i1"].body.peakBalance = 0

\* the requests session s issues in the step, by their positions in sent'
NewRequests(s) == (Len(sent[s]) + 1)..Len(sent'[s])

\* C12: in every session the login request is the first request, the
\* POST /assessments request the second, and the requests of the task loop
\* come after both; a token is obtained only from a login answered 200 and an
\* assessment id only from a POST /assessments answered 201, and a request of
\* the task loop is issued only by a session that holds both; a session in
\* its task loop issues no request but those of the task loop.
C12_RequestOrder ==
    /\ [](\A s \in Sessions : \A k \in 1..Len(sent[s]) :
            /\ sent[s][k].name = "/auth/login" <=> k = 1
            /\ sent[s][k].name = "/assessments" <=> k = 2
            /\ sent[s][k].name \in TaskNames <=> k >= 3)
    /\ [][\A s \in Sessions :
            (pc[s] = "login" /\ pc'[s] # "login" /\ ~Falsy(token'[s])) =>
                \A r \in LoginResponses(s) :
                    (login(s, r) \/ HF_login(s, r)) => r.status_code = 200]_vars
    /\ [][\A s \in Sessions :
            (pc[s] = "create" /\ pc'[s] # "create" /\ ~Falsy(assessment_id'[s])) =>
                \A r \in AssessmentResponses(s) :
                    (create_assessment(s, r) \/ HF_create_assessment(s, r))
                        => r.status_code = 201]_vars
    /\ [][\A s \in Sessions :
            /\ (Falsy(token[s]) /\ ~Falsy(token'[s])) => pc[s] = "login"
            /\ (Falsy(assessment_id[s]) /\ ~Falsy(assessment_id'[s]))
                  => pc[s] = "create"
            /\ \A k \in NewRequests(s) :
                  sent'[s][k].name \in TaskNames <=> pc[s] = "tasks"
            /\ \A k \in NewRequests(s) :
                  sent'[s][k].name \in TaskNames =>
                      ~Falsy(token[s]) /\ ~Falsy(assessment_id[s])]_vars

\* C12 witness: a session has issued its login, its assessment creation and
\* then the requests of every task of the run, while the other session, whose
\* assessment creation was refused, has issued two requests only
C12_Witness ==
    /\ Len(sent["u1"]) = 2 + MaxTasks
    /\ sent["u1"][1].name = "/auth/login"
    /\ sent["u1"][2].name = "/assessments"
    /\ sent["u1"][3].name \in TaskNames
    /\ pc["u2"] = "tasks"
    /\ ~Falsy(token["u2"]) /\ Falsy(assessment_id["u2"])
    /\ Len(sent["u2"]) = 2

\* C13: the token of a session changes in its login step at most, and its
\* assessment id in its create_assessment step at most, each of which a
\* session takes once; from the moment on_start has returned neither changes
\* again, whatever tasks run and however they are answered; and a session
\* that holds an assessment id holds a token.
C13_SetOnceThenFrozen ==
    /\ [][\A s \in Sessions :
            /\ token'[s] # token[s] => (pc[s] = "login" /\ pc'[s] = "create")
            /\ assessment_id'[s] # assessment_id[s]
                  => (pc[s] = "create" /\ pc'[s] = "tasks")
            /\ pc[s] = "create" => pc'[s] \in {"create", "tasks"}
            /\ pc[s] = "tasks" =>
                  /\ pc'[s] = "tasks"
                  /\ token'[s] = token[s]
                  /\ assessment_id'[s] = assessment_id[s]]_vars
    /\ [](\A s \in Sessions :
            assessment_id[s] # None => (token[s] # None /\ ~Falsy(token[s])))

\* C13 witness: both sessions hold the token and the assessment id they were
\* issued after every task of the run was executed, with failed requests
\* among them
C13_Witness ==
    /\ tasks_executed = MaxTasks
    /\ \A s \in Sessions :
          /\ pc[s] = "tasks"
          /\ token[s] = IssuedToken(s)
          /\ assessment_id[s] = IssuedId(s)
    /\ \E s \in Sessions : Issued(s, TaskNames) # {}
    /\ stats.num_failures > 0

\* the login was answered 200 with a body the token could be read from
Successful(r) == r.status_code = 200 /\ ~JsonRaises(r.body)

\* the step completes the login of session s
LoginStep(s) == pc[s] = "login" /\ pc'[s] # "login"

\* C14 as stated: whenever a session, of either variant, completes a
\* successful login on an identity, the token of that identity's pool record
\* is the token of that session.
C14_LastLoginWins ==
    [][\A s \in Sessions :
          LoginStep(s) =>
              \A r \in LoginResponses(s) :
                  ((login(s, r) \/ HF_login(s, r)) /\ Successful(r)) =>
                      TEST_USERS'[user_data[s][1]].token = token'[s]]_vars

\* C14, amended: whenever a TradingUser session completes a login answered
\* 200 with a readable body, the token of its identity's pool record becomes
\* the token of that session and no other record changes; no other step
\* changes the pool; so a record's token is None as long as no such login
\* was completed on it and is otherwise the token of a TradingUser session
\* that completed one on it.
C14_LastNormalLoginWins ==
    /\ [][\A s \in Sessions :
            LoginStep(s) =>
                \A r \in LoginResponses(s) :
                    /\ (login(s, r) /\ Successful(r)) =>
                          /\ TEST_USERS'[user_data[s][1]].token = token'[s]
                          /\ \A u \in (DOMAIN TEST_USERS) \ {user_data[s][1]} :
                                TEST_USERS'[u] = TEST_USERS[u]
                    /\ ((login(s, r) /\ ~Successful(r)) \/ HF_login(s, r)) =>
                          TEST_USERS' = TEST_USERS]_vars
    /\ [][(\A s \in Sessions : ~LoginStep(s)) => TEST_USERS' = TEST_USERS]_vars
    /\ [](\A u \in DOMAIN TEST_USERS :
            LET writers == {s \in Sessions :
                               /\ cls[s] = "TradingUser"
                               /\ PastLogin(s)
                               /\ user_data[s] = <<u>>}
            IN TEST_USERS[u].token \in {None} \cup {token[s] : s \in writers})

\* C14 witness: two TradingUser sessions hold the same identity and each the
\* token it was issued; the pool record holds the token of the session that
\* logged in last, which is not the token of the other
C14_Witness ==
    /\ \A s \in Sessions :
          /\ cls[s] = "TradingUser"
          /\ user_data[s] = <<0>>
          /\ token[s] = IssuedToken(s)
    /\ TEST_USERS[0].token = token["u1"]
    /\ TEST_USERS[0].token # token["u2"]

\* C15 as stated: every request a session issues, the login and the
\* assessment creation included, carries the timeout of 5 seconds.
C15_EveryCallTimeout ==
    \A s \in Sessions : \A k \in 1..Len(sent[s]) :
        sent[s][k].timeout = TaskTimeout

\* C15, amended: every request of the task loop (POST /orders, GET /positions,
\* GET /assessments/{id}), in both variants, carries the timeout of 5
\* seconds; the login request and the POST /assessments request carry none.
C15_TaskCallsTimeout ==
    \A s \in Sessions : \A k \in 1..Len(sent[s]) :
        /\ sent[s][k].name \in TaskNames => sent[s][k].timeout = TaskTimeout
        /\ sent[s][k].name \in {"/auth/login", "/assessments"}
              => sent[s][k].timeout = NoTimeout

\* C15 witness: a session of each variant has issued its login, its
\* assessment creation and a request of its task loop
C15_Witness ==
    /\ cls["u1"] = "TradingUser" /\ cls["u2"] = "HighFrequencyTradingUser"
    /\ \A s \in Sessions :
          /\ Len(sent[s]) = 3
          /\ sent[s][1].timeout = NoTimeout
          /\ sent[s][2].timeout = NoTimeout
          /\ sent[s][3].name \in TaskNames
          /\ sent[s][3].timeout = TaskTimeout

\* the step is the handler of invocation i producing its answer
HandlerStep(i) == reply[i] = Idle /\ reply'[i] # Idle

C17_SyntheticFailureOnlyNormal ==
    [][\A s \in Sessions :
          (tasks_executed' # tasks_executed /\ ~Unready(s)) =>
              \A status \in StatusCodes :
                  /\ place_order(s, status) =>
                        IF status \in {200, 201}
                        THEN /\ stats'.num_requests = stats.num_requests + 1
                             /\ Len(events') = 1
                        ELSE /\ stats'.num_requests = stats.num_requests + 2
                             /\ Len(events') = 2
                             /\ events'[2] = StatusEvent(status)
                             /\ stats'.num_failures > stats.num_failures
                  /\ place_order_rapid(s, status) =>
                        /\ stats'.num_requests = stats.num_requests + 1
                        /\ Len(events') = 1
                        /\ events'[1] = ClientEvent("POST", "/orders", status)
                        /\ status \in {204, 304}
                              => stats'.num_failures = stats.num_failures]_vars

\* C18: the pool always holds its 100 records, each with the email and the
\* password it was created with; the pool changes in no step but the login
\* of a TradingUser session answered 200 with a readable body, and so in no
\* step of a HighFrequencyTradingUser session, in no create_assessment and in
\* no task.
C18_PoolCredentialsFrozen ==
    /\ [](/\ DOMAIN TEST_USERS = 0..(NumTestUsers - 1)
          /\ Cardinality(DOMAIN TEST_USERS) = 100
          /\ \A u \in DOMAIN TEST_USERS :
                /\ DOMAIN TEST_USERS[u] = {"email", "password", "token"}
                /\ TEST_USERS[u].email = InitialUsers[u].email
                /\ TEST_USERS[u].password = InitialUsers[u].password)
    /\ [][TEST_USERS' # TEST_USERS =>
            \E s \in Sessions :
                /\ cls[s] = "TradingUser"
                /\ LoginStep(s)
                /\ \E r \in LoginResponses(s) : login(s, r) /\ Successful(r)]_vars
    /\ [][\A s \in Sessions :
            (Acts(s) /\ (cls[s] = "HighFrequencyTradingUser"
                            \/ pc[s] \in {"spawned", "create", "tasks"}))
            => TEST_USERS' = TEST_USERS]_vars

\* C18 witness: a TradingUser session has written its token into the last
\* record of the pool, whose email and password are as created, while a
\* HighFrequencyTradingUser session that logged in on the first record has
\* left it without a token, and every task of the run was executed
C18_Witness ==
    /\ cls["u1"] = "TradingUser" /\ cls["u2"] = "HighFrequencyTradingUser"
    /\ user_data["u1"] = <<NumTestUsers - 1>> /\ user_data["u2"] = <<0>>
    /\ \A s \in Sessions : token[s] = IssuedToken(s)
    /\ TEST_USERS[NumTestUsers - 1] =
          [email |-> "test99@example.com", password |-> "password123",
           token |-> IssuedToken("u1")]
    /\ TEST_USERS[0].token = None
    /\ tasks_executed = MaxTasks

====
